---- MODULE Spec2Model ----
(***************************************************************************)
(* AudiConnect (src/audiconnectpy/api.py): the session flag, the vehicle   *)
(* list and registry, the refresh exclusion set, and the public            *)
(* operations async_update, async_refresh_vehicle_data,                    *)
(* async_refresh_vehicles and the actuation commands.                      *)
(*                                                                         *)
(* A string is a sequence of one-character strings, so that str.lower() is *)
(* a computation.  Every operation is one action; the outcomes of the      *)
(* remote calls it awaits (authenticate, vehicle listing, per-vehicle      *)
(* fetch, remote refresh, commands) are chosen nondeterministically.  A    *)
(* procedure of the code is an operator from the object's state to the SET *)
(* of states it can end in, one per combination of remote outcomes.        *)
(***************************************************************************)
EXTENDS Naturals, Sequences, FiniteSets, TLC

\* ---------------------------------------------------------------- bounds
\* Longest userVehicles collection a vehicle listing returns.
MaxVehicles == 2
\* Most vin entries of a vinlist argument of async_update.
MaxFilter == 1
\* Most authenticate calls followed in one behaviour.
MaxAuthCalls == 2
\* Most frames the interpreter lets a recursion nest before it raises
\* RecursionError.
RecursionLimit == 3

\* ---------------------------------------------------------------- strings
\* str.lower() on one character of the alphabet the vins are written in.
LowerChar(c) == IF c = "V" THEN "v" ELSE c

\* str.lower(): vehicle.vin.lower()
Lower(str) == [i \in DOMAIN str |-> LowerChar(str[i])]

\* Python's None for a vin (a vehicle without vin, a call without vehicle).
None == <<>>

\* The vins the remote service and the caller use.
Vins == {<<"v", "1">>, <<"V", "1">>, <<"v", "2">>}

\* ---------------------------------------------------------------- outcomes
\* Auth.async_connect returns a bool.
AuthOutcomes == {"True", "False"}

\* Vehicle.async_fetch_data returns a bool or raises; IOError is what
\* async_update catches, Exception is any exception that is no IOError.
FetchOutcomes == {"True", "False", "IOError", "Exception"}

\* A service call returns, raises ServiceNotFoundError(status), or raises
\* HttpRequestError.
ServiceOutcomes == {"ok", "401", "403", "502", "500", "HttpRequestError"}

\* The statuses raised as ServiceNotFoundError.
ServiceNotFoundError == {"401", "403", "502", "500"}

\* The actuation commands.
Commands == {"lock", "climater", "charger", "window_heating", "pre_heating",
             "ventilation", "honkflash", "charger_max", "climater_temp"}

Range(q) == {q[i] : i \in DOMAIN q}

RECURSIVE SeqsUpTo(_, _)
\* The sequences over S of length at most n without a repeated element.
SeqsUpTo(S, n) ==
    IF n = 0 THEN {<<>>}
    ELSE LET shorter == SeqsUpTo(S, n - 1)
         IN  shorter \cup
             UNION {{Append(q, x) : x \in S \ Range(q)} :
                    q \in {p \in shorter : Len(p) = n - 1}}

\* The userVehicles collections a listing returns: each vehicle once, its vin
\* as the service spells it, or without vin.
Listings == SeqsUpTo(Vins \cup {None}, MaxVehicles)

\* What services.async_get_vehicle_information does besides returning a
\* userVehicles collection: a response without the collection, an IOError,
\* an exception that is no IOError.
ListFailures == {"missing", "IOError", "HttpRequestError"}

\* The vinlist arguments of async_update: None (given = FALSE) or a list.
VinLists == {[given |-> FALSE, vins |-> {}]} \cup
            {[given |-> TRUE, vins |-> f] :
                f \in {g \in SUBSET Vins : Cardinality(g) <= MaxFilter}}

\* ---------------------------------------------------------------- state
VARIABLES
    is_connected,      \* self.is_connected
    audi_vehicles,     \* self._audi_vehicles: the vins of the Vehicle objects
    vehicles,          \* self.vehicles: the dict, in insertion order
    excluded_refresh,  \* self._excluded_refresh
    calls,             \* the capabilities the last operation invoked, in order
    last,              \* the last operation, its arguments and how it ended
    authCalls,         \* how often authenticate was invoked so far
    clean,             \* no authenticate failed and no failure reset the flag
    unsupported,       \* the vins whose remote refresh answered 403 or 502
    pending,           \* the keys async_refresh_vehicles has still to visit
    control_duration,  \* the duration set_control_duration has stored, if any
    frames,            \* the frames the last operation nested by recursion
    tasks,             \* the async_update calls that run interleaved, if any
    account            \* the userVehicles the service lists for those calls

vars == <<is_connected, audi_vehicles, vehicles, excluded_refresh, calls, last,
          authCalls, clean, unsupported, pending, control_duration, frames,
          tasks, account>>

\* The object's fields (and the history kept with them) as one value, the
\* `self` the procedures below transform.
Self == [is_connected |-> is_connected, audi_vehicles |-> audi_vehicles,
         vehicles |-> vehicles, excluded_refresh |-> excluded_refresh,
         calls |-> <<>>, authCalls |-> authCalls, clean |-> clean,
         unsupported |-> unsupported, control_duration |-> control_duration,
         frames |-> 0]

\* One awaited capability: recorded with the session flag it was invoked under.
Call(s, cap, vin, out) ==
    [s EXCEPT !.calls = Append(@, [cap |-> cap, vin |-> vin,
                                   conn |-> s.is_connected, out |-> out])]

\* self.is_connected = False after a failure.
Disconnect(s) == [s EXCEPT !.is_connected = FALSE, !.clean = FALSE]

\* The registration as it would be if it assigned a new dict holding the one
\* entry.
DictUpdate_replaces_dict(d, key, value) ==
    <<[key |-> key, vin |-> value]>>

\* dict.update({key: value}) on the insertion-ordered dict.
DictUpdate(d, key, value) ==
    IF \E i \in DOMAIN d : d[i].key = key
    THEN [i \in DOMAIN d |-> IF d[i].key = key
                             THEN [key |-> key, vin |-> value] ELSE d[i]]
    ELSE Append(d, [key |-> key, vin |-> value])

\* The keys of the dict.
Keys(d) == {d[i].key : i \in DOMAIN d}

\* ---------------------------------------------------------------- login
\* async_login as it would be if a failed login were reported as success.
async_login_reports_success(s) ==
    IF ~s.is_connected
    THEN {[s |-> [Call(s, "authenticate", None, out) EXCEPT
                     !.is_connected = (out = "True"),
                     !.authCalls = @ + 1,
                     !.clean = @ /\ (out = "True")],
           ret |-> TRUE] : out \in AuthOutcomes}
    ELSE {[s |-> s, ret |-> TRUE]}

\* async_login as it would be without the test of self.is_connected.
async_login_always_connects(s) ==
    {[s |-> [Call(s, "authenticate", None, out) EXCEPT
                !.is_connected = (out = "True"),
                !.authCalls = @ + 1,
                !.clean = @ /\ (out = "True")],
      ret |-> (out = "True")] : out \in AuthOutcomes}

\* async_login: the results are [s, ret].
async_login(s) ==
    IF ~s.is_connected
    THEN {[s |-> [Call(s, "authenticate", None, out) EXCEPT
                     !.is_connected = (out = "True"),
                     !.authCalls = @ + 1,
                     !.clean = @ /\ (out = "True")],
           ret |-> (out = "True")] : out \in AuthOutcomes}
    ELSE {[s |-> s, ret |-> TRUE]}

\* ---------------------------------------------------------------- update
\* async_add_or_update_vehicle as it would be if a fetch of a registered
\* vehicle that returns False left the session flag alone.
async_add_or_update_vehicle_keeps_session(s, vehicle, vinlist) ==
    IF vehicle = None THEN {[s |-> s, exc |-> "none"]}
    ELSE IF vinlist.given /\ Lower(vehicle) \notin vinlist.vins
    THEN {[s |-> s, exc |-> "none"]}
    ELSE
      LET vupd == SelectSeq(s.vehicles, LAMBDA e : e.key = Lower(vehicle))
      IN  IF Len(vupd) > 0
          THEN {LET c == Call(s, "fetch_data", vupd[1].vin, out)
                IN  CASE out \in {"True", "False"} -> [s |-> c, exc |-> "none"]
                      [] OTHER -> [s |-> c, exc |-> out]
                : out \in FetchOutcomes}
          ELSE {LET c == Call(s, "fetch_data", vehicle, out)
                    reg(t) == [t EXCEPT !.vehicles =
                                  DictUpdate(@, vehicle, vehicle)]
                IN  CASE out = "True"  -> [s |-> reg(c), exc |-> "none"]
                      [] out = "False" -> [s |-> reg(Disconnect(c)),
                                           exc |-> "none"]
                      [] OTHER         -> [s |-> c, exc |-> "none"]
                : out \in FetchOutcomes}

\* async_add_or_update_vehicle: the results are [s, exc], exc the exception
\* that leaves the procedure ("none" when it returns).
async_add_or_update_vehicle(s, vehicle, vinlist) ==
    IF vehicle = None THEN {[s |-> s, exc |-> "none"]}
    ELSE IF vinlist.given /\ Lower(vehicle) \notin vinlist.vins
    THEN {[s |-> s, exc |-> "none"]}
    ELSE
      LET vupd == SelectSeq(s.vehicles, LAMBDA e : e.key = Lower(vehicle))
      IN  IF Len(vupd) > 0
          THEN {LET c == Call(s, "fetch_data", vupd[1].vin, out)
                IN  CASE out = "True"  -> [s |-> c, exc |-> "none"]
                      [] out = "False" -> [s |-> Disconnect(c), exc |-> "none"]
                      [] OTHER         -> [s |-> c, exc |-> out]
                : out \in FetchOutcomes}
          ELSE {LET c == Call(s, "fetch_data", vehicle, out)
                    reg(t) == [t EXCEPT !.vehicles =
                                  DictUpdate(@, vehicle, vehicle)]
                IN  CASE out = "True"  -> [s |-> reg(c), exc |-> "none"]
                      [] out = "False" -> [s |-> reg(Disconnect(c)),
                                           exc |-> "none"]
                      [] OTHER         -> [s |-> c, exc |-> "none"]
                : out \in FetchOutcomes}

RECURSIVE UpdateLoop(_, _, _, _)
\* for vehicle in self._audi_vehicles: await async_add_or_update_vehicle(...)
\* from position i on, over the results R reached so far; an exception ends
\* the loop.
UpdateLoop(R, vs, i, vinlist) ==
    IF i > Len(vs) THEN R
    ELSE UpdateLoop(
            UNION {IF r.exc # "none" THEN {r}
                   ELSE async_add_or_update_vehicle(r.s, vs[i], vinlist)
                   : r \in R},
            vs, i + 1, vinlist)

\* The try block of async_update as it would be if every update ran the
\* discovery.
UpdateTry_always_discovers(s, vinlist) ==
    {[s |-> Call(s, "get_vehicle_information", None, "missing"),
      ret |-> "False", exc |-> "none"]}
    \cup
    {[s |-> Call(s, "get_vehicle_information", None, f),
      ret |-> "True", exc |-> f] : f \in ListFailures \ {"missing"}}
    \cup
    UNION {LET c == Call(s, "get_vehicle_information", None, "userVehicles")
               d == [c EXCEPT !.audi_vehicles = @ \o userVehicles,
                              !.vehicles = <<>>]
           IN  {[s |-> r.s, ret |-> "True", exc |-> r.exc] :
                   r \in UpdateLoop({[s |-> d, exc |-> "none"]},
                                    d.audi_vehicles, 1, vinlist)}
           : userVehicles \in {l \in Listings :
                                 Len(s.audi_vehicles) + Len(l) <= MaxVehicles + 1}}

\* The try block of async_update as it would be if a response without
\* userVehicles were treated as an I/O failure.
UpdateTry_missing_is_failure(s, vinlist) ==
    IF Len(s.audi_vehicles) > 0
    THEN {[s |-> r.s, ret |-> "True", exc |-> r.exc] :
             r \in UpdateLoop({[s |-> s, exc |-> "none"]},
                              s.audi_vehicles, 1, vinlist)}
    ELSE {[s |-> Call(s, "get_vehicle_information", None, "missing"),
           ret |-> "False", exc |-> "IOError"]}
         \cup
         {[s |-> Call(s, "get_vehicle_information", None, f),
           ret |-> "True", exc |-> f] : f \in ListFailures \ {"missing"}}
         \cup
         UNION {LET c == Call(s, "get_vehicle_information", None,
                              "userVehicles")
                    d == [c EXCEPT !.audi_vehicles = @ \o userVehicles,
                                   !.vehicles = <<>>]
                IN  {[s |-> r.s, ret |-> "True", exc |-> r.exc] :
                        r \in UpdateLoop({[s |-> d, exc |-> "none"]},
                                         d.audi_vehicles, 1, vinlist)}
                : userVehicles \in Listings}

\* The try block of async_update: the results are [s, ret, exc].
UpdateTry(s, vinlist) ==
    IF Len(s.audi_vehicles) > 0
    THEN {[s |-> r.s, ret |-> "True", exc |-> r.exc] :
             r \in UpdateLoop({[s |-> s, exc |-> "none"]},
                              s.audi_vehicles, 1, vinlist)}
    ELSE {[s |-> Call(s, "get_vehicle_information", None, "missing"),
           ret |-> "False", exc |-> "none"]}
         \cup
         {[s |-> Call(s, "get_vehicle_information", None, f),
           ret |-> "True", exc |-> f] : f \in ListFailures \ {"missing"}}
         \cup
         UNION {LET c == Call(s, "get_vehicle_information", None,
                              "userVehicles")
                    d == [c EXCEPT !.audi_vehicles = @ \o userVehicles,
                                   !.vehicles = <<>>]
                IN  {[s |-> r.s, ret |-> "True", exc |-> r.exc] :
                        r \in UpdateLoop({[s |-> d, exc |-> "none"]},
                                         d.audi_vehicles, 1, vinlist)}
                : userVehicles \in Listings}

\* async_update: the results are [s, ret], ret "True", "False", or "raise"
\* when an exception leaves the operation.
async_update(s, vinlist) ==
    UNION {IF ~l.ret THEN {[s |-> l.s, ret |-> "False"]}
           ELSE {CASE r.exc = "none"    -> [s |-> r.s, ret |-> r.ret]
                   [] r.exc = "IOError" -> [s |-> Disconnect(r.s),
                                            ret |-> "False"]
                   [] OTHER             -> [s |-> r.s, ret |-> "raise"]
                 : r \in UpdateTry(l.s, vinlist)}
           : l \in async_login(s)}

\* ---------------------------------------------------------------- refresh
\* The 401 branch as it would be if a retry answered 401 were retried again.
RefreshRetry_retries_again(s, vin) ==
    UNION {UNION {LET c == Call(l.s, "refresh_vehicle_data", vin, out)
                  IN  CASE out = "HttpRequestError" ->
                              {[s |-> c, ret |-> "raise"]}
                        [] out = "401" ->
                              {[s |-> Call(c, "refresh_vehicle_data", vin, o2),
                                ret |-> "False"] : o2 \in ServiceOutcomes}
                        [] OTHER -> {[s |-> c, ret |-> "False"]}
                  : out \in ServiceOutcomes}
           : l \in async_login(Disconnect(s))}

\* The 401 branch as it would be if a retry answered 403 or 502 excluded the
\* vin.
RefreshRetry_excludes(s, vin) ==
    UNION {{LET c == Call(l.s, "refresh_vehicle_data", vin, out)
            IN  CASE out = "HttpRequestError" -> [s |-> c, ret |-> "raise"]
                  [] out \in {"403", "502"} ->
                        [s |-> [c EXCEPT !.excluded_refresh = @ \cup {vin}],
                         ret |-> "False"]
                  [] OTHER -> [s |-> c, ret |-> "False"]
            : out \in ServiceOutcomes}
           : l \in async_login(Disconnect(s))}

\* The except ServiceNotFoundError branch for status 401 of
\* async_refresh_vehicle_data: reset the flag, log in again (the result is
\* not looked at), call the remote refresh once more.  Only a
\* ServiceNotFoundError of the retry is caught here.
RefreshRetry(s, vin) ==
    UNION {{LET c == Call(l.s, "refresh_vehicle_data", vin, out)
            IN  IF out = "HttpRequestError"
                THEN [s |-> c, ret |-> "raise"]
                ELSE [s |-> c, ret |-> "False"]
            : out \in ServiceOutcomes}
           : l \in async_login(Disconnect(s))}

\* The try statement as it would be without the test of the exclusion set.
RefreshTry_ignores_exclusion(s, vin) ==
    UNION {LET c == Call(s, "refresh_vehicle_data", vin, out)
           IN  CASE out = "ok" -> {[s |-> c, ret |-> "True"]}
                 [] out \in {"403", "502"} ->
                       {[s |-> [c EXCEPT !.excluded_refresh = @ \cup {vin},
                                         !.unsupported = @ \cup {vin}],
                         ret |-> "False"]}
                 [] out = "401" -> RefreshRetry(c, vin)
                 [] OTHER -> {[s |-> c, ret |-> "False"]}
           : out \in ServiceOutcomes}

\* The try statement of async_refresh_vehicle_data, entered logged in.
RefreshTry(s, vin) ==
    IF vin \in s.excluded_refresh THEN {[s |-> s, ret |-> "False"]}
    ELSE UNION {LET c == Call(s, "refresh_vehicle_data", vin, out)
                IN  CASE out = "ok" -> {[s |-> c, ret |-> "True"]}
                      [] out \in {"403", "502"} ->
                            {[s |-> [c EXCEPT !.excluded_refresh = @ \cup {vin},
                                              !.unsupported = @ \cup {vin}],
                              ret |-> "False"]}
                      [] out = "401" -> RefreshRetry(c, vin)
                      [] OTHER -> {[s |-> c, ret |-> "False"]}
                : out \in ServiceOutcomes}

\* async_refresh_vehicle_data: the results are [s, ret].
async_refresh_vehicle_data(s, vin) ==
    UNION {IF ~l.ret THEN {[s |-> l.s, ret |-> "False"]}
           ELSE RefreshTry(l.s, vin)
           : l \in async_login(s)}

\* async_refresh_vehicles up to its loop: log in, then iterate the keys of
\* self.vehicles.  The results are [s, ret, keys]: ret "pending" with the
\* keys to visit, or "False".
async_refresh_vehicles(s) ==
    {IF ~l.ret THEN [s |-> l.s, ret |-> "False", keys |-> <<>>]
     ELSE [s |-> l.s, ret |-> "pending",
           keys |-> [i \in DOMAIN l.s.vehicles |-> l.s.vehicles[i].key]]
     : l \in async_login(s)}

\* One iteration of the loop of async_refresh_vehicles:
\* await self.async_refresh_vehicle_data(vin), the result ignored, an
\* exception not caught; after the last key, return True.
RefreshVehiclesIteration(s, keys) ==
    IF keys = <<>> THEN {[s |-> s, ret |-> "True", keys |-> <<>>]}
    ELSE {IF r.ret = "raise" THEN [s |-> r.s, ret |-> "raise", keys |-> <<>>]
          ELSE [s |-> r.s, ret |-> "pending", keys |-> Tail(keys)]
          : r \in async_refresh_vehicle_data(s, Head(keys))}

\* ---------------------------------------------------------------- commands
\* The body of a command as it would be if a 401 reset the session flag, as
\* it does in async_refresh_vehicle_data.
async_command_resets_session(s, cmd, vin) ==
    UNION {IF ~l.ret THEN {[s |-> l.s, ret |-> "False"]}
           ELSE {LET c == Call(l.s, cmd, vin, out)
                 IN  CASE out = "ok" -> [s |-> c, ret |-> "True"]
                       [] out = "401" -> [s |-> Disconnect(c), ret |-> "False"]
                       [] out \in ServiceNotFoundError ->
                             [s |-> c, ret |-> "False"]
                       [] OTHER -> [s |-> c, ret |-> "raise"]
                 : out \in ServiceOutcomes}
           : l \in async_login(s)}

\* The body every actuation command shares (async_switch_lock and the eight
\* like it): log in, await the service call, catch ServiceNotFoundError.
async_command(s, cmd, vin) ==
    UNION {IF ~l.ret THEN {[s |-> l.s, ret |-> "False"]}
           ELSE {LET c == Call(l.s, cmd, vin, out)
                 IN  CASE out = "ok" -> [s |-> c, ret |-> "True"]
                       [] out \in ServiceNotFoundError ->
                             [s |-> c, ret |-> "False"]
                       [] OTHER -> [s |-> c, ret |-> "raise"]
                 : out \in ServiceOutcomes}
           : l \in async_login(s)}

\* ------------------------------------------------------ control duration
\* The durations a caller passes to set_control_duration.
Durations == {10, 30}

\* set_control_duration as a setter that stores the duration and returns.
set_control_duration_stores(s, duration) ==
    [s |-> [s EXCEPT !.control_duration = <<duration>>, !.frames = @ + 1],
     ret |-> "None"]

RECURSIVE set_control_duration(_, _)
\* set_control_duration: the body is the call of itself with the same
\* argument; a call that would nest deeper than the interpreter allows
\* raises RecursionError, which every frame below passes on.  The results
\* are [s, ret].
set_control_duration(s, duration) ==
    IF s.frames >= RecursionLimit
    THEN [s |-> s, ret |-> "RecursionError"]
    ELSE set_control_duration([s EXCEPT !.frames = @ + 1], duration)

\* ---------------------------------------------------------------- actions
\* vinlist = None, and the vinlist of an operation that takes none.
NoVinList == [given |-> FALSE, vins |-> {}]

\* No call is in progress or waiting to be looked at: the caller, who issues
\* the operations one at a time, may issue the next.
Idle == [op |-> "idle", vin |-> None, vinlist |-> NoVinList, ret |-> "True"]

\* __init__
Init ==
    /\ is_connected = FALSE
    /\ audi_vehicles = <<>>
    /\ vehicles = <<>>
    /\ excluded_refresh = {}
    /\ calls = <<>>
    /\ last = Idle
    /\ authCalls = 0
    /\ clean = TRUE
    /\ unsupported = {}
    /\ pending = <<>>
    /\ control_duration = None
    /\ frames = 0
    /\ tasks = <<>>
    /\ account = <<>>

\* The state an operation (or a step of one) that ended as r leaves behind.
Step(r, op, vin, vinlist, keys) ==
    /\ r.s.authCalls <= MaxAuthCalls
    /\ is_connected' = r.s.is_connected
    /\ audi_vehicles' = r.s.audi_vehicles
    /\ vehicles' = r.s.vehicles
    /\ excluded_refresh' = r.s.excluded_refresh
    /\ calls' = r.s.calls
    /\ last' = [op |-> op, vin |-> vin, vinlist |-> vinlist, ret |-> r.ret]
    /\ authCalls' = r.s.authCalls
    /\ clean' = r.s.clean
    /\ unsupported' = r.s.unsupported
    /\ pending' = keys
    /\ control_duration' = r.s.control_duration
    /\ frames' = r.s.frames
    /\ UNCHANGED <<tasks, account>>

Finish(r, op, vin, vinlist) == Step(r, op, vin, vinlist, <<>>)

Update ==
    /\ last = Idle
    /\ \E vinlist \in VinLists : \E r \in async_update(Self, vinlist) :
            Finish(r, "update", None, vinlist)

RefreshVehicle ==
    /\ last = Idle
    /\ \E vin \in Vins : \E r \in async_refresh_vehicle_data(Self, vin) :
            Finish(r, "refresh_vehicle_data", vin, NoVinList)

RefreshVehicles ==
    /\ last = Idle
    /\ \E r \in async_refresh_vehicles(Self) :
            Step(r, "refresh_vehicles", None, NoVinList, r.keys)

\* async_refresh_vehicles resumes: the next key, or the return.
RefreshVehiclesNext ==
    /\ last.op = "refresh_vehicles"
    /\ last.ret = "pending"
    /\ \E r \in RefreshVehiclesIteration(Self, pending) :
            Step(r, "refresh_vehicles",
                 IF pending = <<>> THEN None ELSE Head(pending),
                 NoVinList, r.keys)

\* An actuation command issued by the caller; the arguments besides vin only
\* choose the text of the log message.
CommandAction(cmd) ==
    /\ last = Idle
    /\ \E vin \in Vins : \E r \in async_command(Self, cmd, vin) :
            Finish(r, cmd, vin, NoVinList)

SwitchLock == CommandAction("lock")

SwitchClimater == CommandAction("climater")

SwitchCharger == CommandAction("charger")

SwitchWindowHeating == CommandAction("window_heating")

SwitchPreHeating == CommandAction("pre_heating")

SwitchVentilation == CommandAction("ventilation")

SetHonkFlash == CommandAction("honkflash")

SetChargerMaxCurrent == CommandAction("charger_max")

SetClimaterTemperature == CommandAction("climater_temp")

SetControlDuration ==
    /\ last = Idle
    /\ \E duration \in Durations :
          Finish(set_control_duration(Self, duration),
                 "set_control_duration", None, NoVinList)

\* The caller has taken the result of the operation (a bool or an exception).
Return ==
    /\ last # Idle
    /\ last.ret # "pending"
    /\ last' = Idle
    /\ calls' = <<>>
    /\ frames' = 0
    /\ UNCHANGED <<is_connected, audi_vehicles, vehicles, excluded_refresh,
                   authCalls, clean, unsupported, pending, control_duration,
                   tasks, account>>

Next ==
    \/ Update \/ RefreshVehicle \/ RefreshVehicles \/ RefreshVehiclesNext
    \/ SwitchLock \/ SwitchClimater \/ SwitchCharger \/ SwitchWindowHeating \/ SwitchPreHeating
    \/ SwitchVentilation \/ SetHonkFlash \/ SetChargerMaxCurrent \/ SetClimaterTemperature
    \/ SetControlDuration
    \/ Return

Spec == Init /\ [][Next]_vars

\* ------------------------------------------------------ interleaved updates
\* Two async_update calls on one fresh instance, as tasks of one event loop:
\* a task runs from one await of a remote capability to the next without
\* interruption, and at an await the other task may run.
Tasks == {1, 2}

\* A task before its first step.  pc is the await the task is suspended at
\* ("auth", "list", "fetch"), i the position its loop over _audi_vehicles has
\* reached, target the vin of the Vehicle whose fetch it awaits, known whether
\* that Vehicle was taken from the registry; auths and listed record what the
\* task has done.
NewTask == [pc |-> "start", vinlist |-> NoVinList, i |-> 0, target |-> None,
            known |-> FALSE, ret |-> "none", auths |-> 0, listed |-> FALSE]

\* The vinlist arguments of the interleaved calls: None, or one vin.
TaskVinLists == {NoVinList, [given |-> TRUE, vins |-> {<<"v", "1">>}]}

\* __init__, and two async_update calls created but not yet run.
InitConc ==
    /\ is_connected = FALSE
    /\ audi_vehicles = <<>>
    /\ vehicles = <<>>
    /\ excluded_refresh = {}
    /\ calls = <<>>
    /\ last = Idle
    /\ authCalls = 0
    /\ clean = TRUE
    /\ unsupported = {}
    /\ pending = <<>>
    /\ control_duration = None
    /\ frames = 0
    /\ tasks = [t \in Tasks |-> NewTask]
    /\ account \in Listings

\* The object's fields together with the locals of task t.
Conc(t) == [is_connected |-> is_connected, audi_vehicles |-> audi_vehicles,
            vehicles |-> vehicles, authCalls |-> authCalls, clean |-> clean,
            task |-> tasks[t]]

\* return ret (or an exception leaves async_update).
Done(c, ret) == [c EXCEPT !.task.pc = "done", !.task.ret = ret]

\* The first position from i on of the list vs whose vehicle has a vin and
\* passes the filter (0: none): the vehicles before it are skipped without
\* an await.
NextSelected(vs, i, vinlist) ==
    LET S == {j \in i..Len(vs) :
                /\ vs[j] # None
                /\ vinlist.given => Lower(vs[j]) \in vinlist.vins}
    IN  IF S = {} THEN 0 ELSE CHOOSE j \in S : \A k \in S : j <= k

\* The loop over self._audi_vehicles from position i on, up to the await of
\* the next fetch: the list is read as it is now, vupd is taken before the
\* await.
Advance(c, i) ==
    LET vs == c.audi_vehicles
        j == NextSelected(vs, i, c.task.vinlist)
    IN  IF j = 0 THEN Done(c, "True")
        ELSE LET vupd == SelectSeq(c.vehicles,
                                   LAMBDA e : e.key = Lower(vs[j]))
             IN  [c EXCEPT !.task.pc = "fetch",
                           !.task.i = j,
                           !.task.known = Len(vupd) > 0,
                           !.task.target = IF Len(vupd) > 0
                                           THEN vupd[1].vin ELSE vs[j]]

\* The try block as it would be if it awaited the listing whatever the
\* length of the list.
EnterTry_always_lists(c) ==
    [c EXCEPT !.task.pc = "list"]

\* The start of the try block of async_update: the test of the list's length.
EnterTry(c) ==
    IF Len(c.audi_vehicles) > 0
    THEN Advance(c, 1)
    ELSE [c EXCEPT !.task.pc = "list"]

\* The state a step of task t that ended as c leaves behind.
Commit(t, c) ==
    /\ is_connected' = c.is_connected
    /\ audi_vehicles' = c.audi_vehicles
    /\ vehicles' = c.vehicles
    /\ authCalls' = c.authCalls
    /\ clean' = c.clean
    /\ tasks' = [tasks EXCEPT ![t] = c.task]
    /\ UNCHANGED <<excluded_refresh, calls, last, unsupported, pending,
                   control_duration, frames, account>>

\* async_update(vinlist) starts: async_login tests the flag and awaits
\* async_connect, or goes on into the try block.
TaskStart(t) ==
    /\ tasks[t].pc = "start"
    /\ \E vinlist \in TaskVinLists :
          LET c == [Conc(t) EXCEPT !.task.vinlist = vinlist]
          IN  Commit(t, IF ~c.is_connected
                        THEN [c EXCEPT !.authCalls = @ + 1,
                                       !.task.auths = @ + 1,
                                       !.task.pc = "auth"]
                        ELSE EnterTry(c))

\* async_connect answers: async_login stores the result and returns the flag.
TaskAuth(t) ==
    /\ tasks[t].pc = "auth"
    /\ \E out \in AuthOutcomes :
          LET c == [Conc(t) EXCEPT !.is_connected = (out = "True"),
                                   !.clean = @ /\ (out = "True")]
          IN  Commit(t, IF ~c.is_connected THEN Done(c, "False")
                        ELSE EnterTry(c))

\* async_get_vehicle_information answers: the appends, the reset of the
\* registry and the loop up to its first fetch.
TaskList(t) ==
    /\ tasks[t].pc = "list"
    /\ \E out \in ListFailures \cup {"userVehicles"} :
          LET c == Conc(t)
          IN  Commit(t,
                CASE out = "missing" -> Done(c, "False")
                  [] out = "IOError" ->
                        Done([c EXCEPT !.is_connected = FALSE,
                                       !.clean = FALSE], "False")
                  [] out = "HttpRequestError" -> Done(c, "raise")
                  [] OTHER ->
                        Advance([c EXCEPT !.audi_vehicles = @ \o account,
                                          !.vehicles = <<>>,
                                          !.task.listed = TRUE], 1))

\* async_fetch_data answers: the rest of async_add_or_update_vehicle and the
\* loop up to the next fetch.
TaskFetch(t) ==
    /\ tasks[t].pc = "fetch"
    /\ \E out \in FetchOutcomes :
          LET c == Conc(t)
              off == [c EXCEPT !.is_connected = FALSE, !.clean = FALSE]
              reg(d) == [d EXCEPT !.vehicles =
                            DictUpdate(@, c.task.target, c.task.target)]
              next == c.task.i + 1
          IN  Commit(t,
                IF c.task.known
                THEN CASE out = "True"    -> Advance(c, next)
                       [] out = "False"   -> Advance(off, next)
                       [] out = "IOError" -> Done(off, "False")
                       [] OTHER           -> Done(c, "raise")
                ELSE CASE out = "True"    -> Advance(reg(c), next)
                       [] out = "False"   -> Advance(reg(off), next)
                       [] OTHER           -> Advance(c, next))

NextConc ==
    \E t \in Tasks : TaskStart(t) \/ TaskAuth(t) \/ TaskList(t) \/ TaskFetch(t)

SpecConc == InitConc /\ [][NextConc]_vars

\* ---------------------------------------------------------------- claims
\* The remote refreshes, the per-vehicle fetches and the positions of the
\* authenticate calls among the capabilities the last operation invoked.
RefreshCalls == SelectSeq(calls, LAMBDA c : c.cap = "refresh_vehicle_data")

FetchCalls == SelectSeq(calls, LAMBDA c : c.cap = "fetch_data")

AuthAt == {i \in DOMAIN calls : calls[i].cap = "authenticate"}

RefreshAt == {i \in DOMAIN calls : calls[i].cap = "refresh_vehicle_data"}

\* The operation that leads from one state to the next is a public operation
\* the caller has just issued.
Issued == last = Idle /\ last' # Idle

\* A refresh of one vehicle: async_refresh_vehicle_data called by the caller,
\* or by the loop of async_refresh_vehicles for the key last.vin.
RefreshedOne ==
    \/ last.op = "refresh_vehicle_data"
    \/ last.op = "refresh_vehicles" /\ last.vin # None

\* C1: when the remote refresh of refreshVehicle(vin) fails with status 401,
\* the flag is reset, authenticate is called again and the refresh is retried
\* once; if the retry succeeds (the session authenticated again),
\* refreshVehicle returns true.
C1_RetryThatSucceedsReturnsTrue ==
    (/\ last.op = "refresh_vehicle_data"
     /\ Len(RefreshCalls) >= 1
     /\ RefreshCalls[1].out = "401")
    => /\ Len(RefreshCalls) = 2
       /\ \E i \in AuthAt : \E j \in RefreshAt : j < i /\ ~calls[i].conn
       /\ (RefreshCalls[2].out = "ok" /\ is_connected => last.ret = "True")

\* C2: a remote service operation (listing, fetch, refresh, command) is
\* invoked only while the session flag is true.
C2_RemoteOnlyWhileConnected ==
    \A i \in DOMAIN calls : calls[i].cap # "authenticate" => calls[i].conn

\* C3: a public operation entered with the flag false whose authenticate
\* returns false returns false, invokes no remote capability and leaves the
\* flag false and the registry, the vehicle list and the exclusion set
\* unchanged.
C3_FailedLoginStopsOperation ==
    [][(/\ Issued
        /\ ~is_connected
        /\ Len(calls') >= 1
        /\ calls'[1].cap = "authenticate"
        /\ calls'[1].out = "False")
       => /\ last'.ret = "False"
          /\ Len(calls') = 1
          /\ ~is_connected'
          /\ vehicles' = vehicles
          /\ audi_vehicles' = audi_vehicles
          /\ excluded_refresh' = excluded_refresh]_vars

C3_Witness ==
    /\ last.op = "lock"
    /\ last.ret = "False"
    /\ Len(calls) = 1
    /\ calls[1].cap = "authenticate"
    /\ calls[1].out = "False"
    /\ Len(vehicles) > 0
    /\ excluded_refresh # {}

C5_FilterIgnoresCase ==
    (last.op = "update" /\ last.ret = "True" /\ last.vinlist.given)
    => \A k \in DOMAIN audi_vehicles :
          (\E f \in last.vinlist.vins : Lower(f) = Lower(audi_vehicles[k]))
          <=> (\E i \in DOMAIN FetchCalls :
                  Lower(FetchCalls[i].vin) = Lower(audi_vehicles[k]))

\* C6: if a remote call made during update (the listing, the fetch of a
\* registered vehicle, the first fetch of a new vehicle) raises an I/O
\* failure, update returns false and the flag is false when it returns.
C6_IOFailureFailsUpdate ==
    (last.op = "update" /\ \E i \in DOMAIN calls : calls[i].out = "IOError")
    => (last.ret = "False" /\ ~is_connected)

\* The vins of a vehicle list, lowercased, vehicles without vin left out.
LowerVins(vs) ==
    LET withVin == SelectSeq(vs, LAMBDA v : v # None)
    IN  [i \in DOMAIN withVin |-> Lower(withVin[i])]

\* The vins the last operation fetched, lowercased, in the order of the calls.
FetchedLower == [i \in DOMAIN FetchCalls |-> Lower(FetchCalls[i].vin)]

IsPrefix(p, q) == Len(p) <= Len(q) /\ \A i \in DOMAIN p : p[i] = q[i]

NoListing == \A i \in DOMAIN calls : calls[i].cap # "get_vehicle_information"

\* C7 as stated: after an update discovered [v1, v2], every later update
\* without filter invokes no listing, leaves the registry with exactly one
\* entry per discovered vehicle (size 2) and fetches v1 before v2.
C7_LaterUpdateRegistryOfTwo ==
    [][(/\ Issued
        /\ last'.op = "update"
        /\ ~last'.vinlist.given
        /\ Len(audi_vehicles) = 2
        /\ None \notin Range(audi_vehicles))
       => /\ NoListing'
          /\ Len(vehicles') = 2
          /\ Keys(vehicles') = Range(audi_vehicles)
          /\ IsPrefix(FetchedLower', LowerVins(audi_vehicles))]_vars

\* C7 as amended: after an update discovered a non-empty vehicle list, every
\* later update invokes no listing, leaves the vehicle list as it is, removes
\* no registry entry, keeps at most one entry per discovered vehicle and
\* (without filter) fetches in discovery order; so once both vehicles of
\* [v1, v2] are registered, the registry keeps exactly these two entries.
C7_LaterUpdateKeepsRegistry ==
    [][(Issued /\ last'.op = "update" /\ Len(audi_vehicles) > 0)
       => /\ NoListing'
          /\ audi_vehicles' = audi_vehicles
          /\ Keys(vehicles) \subseteq Keys(vehicles')
          /\ Keys(vehicles') \subseteq Range(audi_vehicles)
          /\ Cardinality(Keys(vehicles')) = Len(vehicles')
          /\ (~last'.vinlist.given
              => IsPrefix(FetchedLower', LowerVins(audi_vehicles)))
          /\ (Len(vehicles) = Len(audi_vehicles)
              => /\ Len(vehicles') = Len(audi_vehicles)
                 /\ Keys(vehicles') = Range(audi_vehicles))]_vars

C7_Witness ==
    /\ last.op = "update"
    /\ ~last.vinlist.given
    /\ NoListing
    /\ Len(audi_vehicles) = 2
    /\ Len(vehicles) = 2
    /\ Len(FetchCalls) = 2
    /\ FetchCalls[1].vin = audi_vehicles[1]
    /\ FetchCalls[2].vin = audi_vehicles[2]

\* C8: one refreshVehicle(vin) invokes the remote refresh at most twice and
\* authenticate at most once after its first refresh; the second refresh
\* follows a first that failed with 401, and when the retry fails with a
\* typed service failure the call returns false.
C8_AtMostOneRetry ==
    RefreshedOne
    => /\ Len(RefreshCalls) <= 2
       /\ (Len(RefreshCalls) = 2 => RefreshCalls[1].out = "401")
       /\ Cardinality({i \in AuthAt : \E j \in RefreshAt : j < i}) <= 1
       /\ Cardinality(AuthAt) <= 2
       /\ (/\ last.op = "refresh_vehicle_data"
           /\ Len(RefreshCalls) = 2
           /\ RefreshCalls[2].out \in ServiceNotFoundError)
          => last.ret = "False"

C8_Witness ==
    /\ last.op = "refresh_vehicle_data"
    /\ Len(RefreshCalls) = 2
    /\ RefreshCalls[2].out = "401"
    /\ is_connected
    /\ last.ret = "False"

\* C9: authenticate is invoked only while the flag is false and the flag is
\* set to what it returns; while authenticate has always succeeded and no
\* failure has reset the flag, it has been called exactly once in total.
C9_LoginIsIdempotent ==
    /\ \A i \in AuthAt :
          /\ ~calls[i].conn
          /\ IF i < Len(calls)
             THEN calls[i + 1].conn = (calls[i].out = "True")
             ELSE is_connected = (calls[i].out = "True")
    /\ clean => authCalls <= 1
    /\ (clean /\ last.op \notin {"idle", "set_control_duration"})
       => authCalls = 1

C9_Witness ==
    /\ last.op = "lock"
    /\ clean
    /\ authCalls = 1
    /\ Len(calls) = 1
    /\ calls[1].cap = "lock"
    /\ calls[1].out = "ok"

\* C10: every public operation returns a boolean for every outcome of its
\* remote calls: no typed service failure and no transport failure leaves
\* it as a raised exception.
C10_NothingIsRaised == last.ret # "raise"

\* C11: each registry key is the lowercase form of its vehicle's vin, and the
\* registry holds at most one entry per lowercased vin, whatever the listing
\* (vins in upper case, two vins that differ only in case).
C11_KeysAreLowercase ==
    /\ \A i \in DOMAIN vehicles : vehicles[i].key = Lower(vehicles[i].vin)
    /\ \A i, j \in DOMAIN vehicles :
          Lower(vehicles[i].key) = Lower(vehicles[j].key) => i = j

\* The fetches of the last update whose exception was swallowed: a raising
\* fetch after which the loop went on, or the update returned True.
SwallowedAt ==
    {i \in DOMAIN calls :
        /\ calls[i].cap = "fetch_data"
        /\ calls[i].out \in {"IOError", "Exception"}
        /\ (i < Len(calls) \/ last.ret = "True")}

\* C12: when the first fetch of a vehicle that is not yet in the registry
\* raises, the exception is swallowed, the remaining vehicles are processed,
\* and the vehicle is in the registry when update returns.
C12_RegisteredDespiteException ==
    last.op = "update"
    => \A i \in SwallowedAt : calls[i].vin \in Keys(vehicles)

\* The vehicles of the list vs that an update with the filter vinlist fetches.
Selected(vs, vinlist) ==
    SelectSeq(vs, LAMBDA v :
        v # None /\ (vinlist.given => Lower(v) \in vinlist.vins))

FetchedFalse == {i \in DOMAIN calls :
                    calls[i].cap = "fetch_data" /\ calls[i].out = "False"}

\* C13: when a per-vehicle fetch inside update returns False, the session flag
\* is False when update returns, the False ends nothing (an update that
\* returns True has fetched every selected vehicle, in the order of the
\* list), the vehicle is in the registry, and the next operation calls
\* authenticate before any other remote capability.
C13_FalseFetchDropsSession ==
    [][/\ (last'.op = "update" /\ FetchedFalse' # {})
          => /\ ~is_connected'
             /\ \A i \in FetchedFalse' : calls'[i].vin \in Keys(vehicles')
             /\ last'.ret = "True"
                => FetchedLower' =
                     LowerVins(Selected(audi_vehicles', last'.vinlist))
       /\ (Issued /\ ~is_connected)
          => /\ last'.op # "set_control_duration" => Len(calls') >= 1
             /\ Len(calls') >= 1 => calls'[1].cap = "authenticate"]_vars

C13_Witness ==
    /\ last.op = "update"
    /\ last.ret = "True"
    /\ NoListing
    /\ Len(FetchCalls) = 2
    /\ FetchCalls[1].out = "False"
    /\ FetchCalls[2].out = "True"
    /\ Len(vehicles) = 2
    /\ ~is_connected

\* C14: the exclusion set changes only by a refreshVehicle(vin) whose first
\* remote refresh answered 403 or 502, and then by adding that vin; every
\* other outcome, the retry after a 401 and every other operation leave it as
\* it was, and a first attempt that did not answer 401 is the only attempt.
C14_ExcludedOnlyOnFirst403Or502 ==
    [][/\ excluded_refresh' # excluded_refresh
          => /\ RefreshedOne'
             /\ excluded_refresh' = excluded_refresh \cup {last'.vin}
             /\ Len(RefreshCalls') = 1
             /\ RefreshCalls'[1].vin = last'.vin
             /\ RefreshCalls'[1].out \in {"403", "502"}
       /\ (Len(RefreshCalls') >= 1 /\ RefreshCalls'[1].out # "401")
          => Len(RefreshCalls') = 1]_vars

C14_Witness ==
    /\ last.op = "refresh_vehicle_data"
    /\ Len(RefreshCalls) = 2
    /\ RefreshCalls[1].out = "401"
    /\ RefreshCalls[2].out = "403"
    /\ last.vin \notin excluded_refresh
    /\ excluded_refresh # {}

CommandAt == {i \in DOMAIN calls : calls[i].cap \in Commands}

\* C15: an actuation command that passes the login gate invokes its remote
\* capability exactly once, as its last remote call; it returns True when the
\* call succeeds and False when it fails with a ServiceNotFoundError of any
\* status; the session flag stays as it was at the gate, the exclusion set,
\* the registry and the vehicle list stay as they were, and authenticate is
\* not called after the gate.
C15_CommandCallsOnce ==
    [][(Issued /\ last'.op \in Commands /\ CommandAt' # {})
       => /\ CommandAt' = {Len(calls')}
          /\ AuthAt' \subseteq {1}
          /\ LET c == calls'[Len(calls')]
             IN  /\ c.cap = last'.op
                 /\ c.vin = last'.vin
                 /\ c.conn
                 /\ is_connected' = c.conn
                 /\ c.out = "ok" => last'.ret = "True"
                 /\ c.out \in ServiceNotFoundError => last'.ret = "False"
          /\ excluded_refresh' = excluded_refresh
          /\ vehicles' = vehicles
          /\ audi_vehicles' = audi_vehicles]_vars

C15_Witness ==
    /\ last.op = "honkflash"
    /\ last.ret = "False"
    /\ Len(calls) = 1
    /\ calls[1].cap = "honkflash"
    /\ calls[1].out = "401"
    /\ is_connected
    /\ Len(vehicles) > 0

Discovered == \E i \in DOMAIN calls :
                 /\ calls[i].cap = "get_vehicle_information"
                 /\ calls[i].out = "userVehicles"

\* C16: no step removes a registry key or an entry; the registry is reset
\* only by the discovery of update, which runs only while the vehicle list is
\* empty, and while the vehicle list is empty the registry is empty.
C16_RegistryNeverShrinks ==
    [][/\ Keys(vehicles) \subseteq Keys(vehicles')
       /\ Len(vehicles) <= Len(vehicles')
       /\ Discovered' => (audi_vehicles = <<>> /\ vehicles = <<>>)
       /\ audi_vehicles' = <<>> => vehicles' = <<>>]_vars

C16_Witness ==
    /\ last.op = "update"
    /\ NoListing
    /\ Len(FetchCalls) = 2
    /\ FetchCalls[2].out = "Exception"
    /\ Len(audi_vehicles) = 2
    /\ Len(vehicles) = 1

MissingListing == \E i \in DOMAIN calls :
                     /\ calls[i].cap = "get_vehicle_information"
                     /\ calls[i].out = "missing"

\* C17: when the discovery of update gets a listing without userVehicles,
\* update returns False, the registry and the vehicle list stay as they were
\* (empty), no fetch is issued and the session flag is True; and an update
\* that finds the vehicle list empty and passes the login gate invokes the
\* listing, so the next update runs the discovery again.
C17_MissingListingChangesNothing ==
    [][/\ (Issued /\ last'.op = "update" /\ MissingListing')
          => /\ last'.ret = "False"
             /\ vehicles' = vehicles
             /\ audi_vehicles' = audi_vehicles
             /\ audi_vehicles' = <<>>
             /\ FetchCalls' = <<>>
             /\ is_connected'
       /\ (Issued /\ last'.op = "update" /\ audi_vehicles = <<>>)
          => /\ Len(calls') >= 1
             /\ is_connected => calls'[1].cap = "get_vehicle_information"
             /\ (~is_connected /\ calls'[1].out = "True")
                => /\ Len(calls') >= 2
                   /\ calls'[2].cap = "get_vehicle_information"]_vars

C17_Witness ==
    /\ last.op = "update"
    /\ last.ret = "False"
    /\ Len(calls) = 1
    /\ MissingListing
    /\ is_connected
    /\ audi_vehicles = <<>>
    /\ vehicles = <<>>

\* C18: a call of set_control_duration never returns and never stores a
\* duration: every frame calls the procedure again with the same argument,
\* there is no base case, and the recursion ends only when the interpreter
\* refuses a further frame.
C18_NeverReturns ==
    /\ control_duration = None
    /\ last.op = "set_control_duration"
       => /\ last.ret = "RecursionError"
          /\ frames = RecursionLimit
    /\ last.op # "set_control_duration" => frames = 0

C18_Witness ==
    /\ last.op = "set_control_duration"
    /\ last.ret = "RecursionError"
    /\ frames = RecursionLimit
    /\ Len(vehicles) > 0

\* How often v is in the list q.
Count(v, q) == Cardinality({i \in DOMAIN q : q[i] = v})

\* The tasks that have run the discovery.
Listed == {t \in Tasks : tasks[t].listed}

\* C19 as stated: when two update calls interleave at their awaits, the
\* vehicle list holds each listed vehicle exactly once, the registry is never
\* reset to empty after a vehicle was registered, and authenticate is invoked
\* at most once while it succeeds.
C19_InterleavedUpdatesAreSafe ==
    [][/\ \A v \in Range(audi_vehicles') : Count(v, audi_vehicles') = 1
       /\ vehicles # <<>> => vehicles' # <<>>
       /\ clean' => authCalls' <= 1]_vars

\* C19, amended: when two update calls interleave at their awaits, the
\* vehicle list holds each listed vehicle once per call that ran the
\* discovery, a call awaits the listing only if it found the list empty, the
\* registry is reset only by the discovery of such a call, its keys are vins
\* of the list, and authenticate is invoked at most once per call.
C19_OncePerInterleavedUpdate ==
    [][/\ \A v \in Range(account) :
             Count(v, audi_vehicles') = Cardinality(Listed')
       /\ Len(audi_vehicles') = Len(account) * Cardinality(Listed')
       /\ \A t \in Tasks :
             /\ tasks'[t].auths <= 1
             /\ (tasks[t].pc # "list" /\ tasks'[t].pc = "list")
                => audi_vehicles = <<>>
       /\ (vehicles # <<>> /\ vehicles' = <<>>)
          => \E t \in Tasks : tasks[t].pc = "list" /\ tasks'[t].listed
       /\ Keys(vehicles') \subseteq Range(audi_vehicles')
       /\ authCalls' = tasks'[1].auths + tasks'[2].auths]_vars

C19_Witness ==
    /\ tasks # <<>>
    /\ \A t \in Tasks : tasks[t].pc = "done" /\ tasks[t].ret = "True"
    /\ Listed = Tasks
    /\ Len(account) = 2
    /\ audi_vehicles = account \o account
    /\ authCalls = 2
    /\ clean
    /\ Len(vehicles) = 1

====
